---- MODULE Spec2Model ----
(***************************************************************************)
(* RxCalc quantity service (src/src/lib/services/quantity.ts).             *)
(*                                                                         *)
(* QuantityCalculator is a stateless class: the state of the model is the  *)
(* last call made on it (operation, arguments) and what that call returned.*)
(* Texts are strings, matched character by character the way the regular   *)
(* expressions of the source match them.  JavaScript numbers that can be   *)
(* fractional (dose amounts, efficiencies) are exact rationals num/den;    *)
(* numbers that can be NaN or Infinity carry a kind.                       *)
(***************************************************************************)
EXTENDS Integers, Sequences, FiniteSets, TLC

VARIABLES
    pc,              \* the operation that returned last ("idle" before any call)
    sig,             \* argument sig of parseSIG / calculateDispenseQuantity
    daysSupply,      \* argument daysSupply of calculateDispenseQuantity
    quantityNeeded,  \* argument quantityNeeded of optimizeNDCSelection
    availableNDCs,   \* argument availableNDCs of optimizeNDCSelection
    parsedSIG,       \* ParsedSIG returned by parseSIG
    quantityResult,  \* QuantityCalculationResult returned by calculateDispenseQuantity
    ndcResult,       \* OptimizedNDCResult returned by optimizeNDCSelection
    previous,        \* what the caller kept of an earlier optimizeNDCSelection call
    toastStore,      \* the toast store: its toasts, the pending timers, the ids given out
    page,            \* the variables of the page component (+page.svelte)
    runs,            \* the handleSubmit invocations of the page and where each stands
    post             \* the request the performance-test POST handler is serving

\* the state of the callers of the quantity service
callerVars == <<toastStore, page, runs, post>>

\* the state of a call on the quantity service
serviceVars == <<pc, sig, daysSupply, quantityNeeded, availableNDCs,
                 parsedSIG, quantityResult, ndcResult, previous>>

vars == <<pc, sig, daysSupply, quantityNeeded, availableNDCs,
          parsedSIG, quantityResult, ndcResult, previous, toastStore, page, runs, post>>

----------------------------------------------------------------------------
(* Bounds of the model *)

MaxRuns == 2         \* handleSubmit invocations of one page session
MaxToasts == 2       \* toasts created through the store's own methods

MaxAmount == 3       \* dose amounts 1..MaxAmount are written into the SIG texts
MaxDays == 6         \* daysSupply ranges over -1..MaxDays and the tests' 14 and 30
MaxCatalogLen == 3   \* catalogs hold at most this many packages

----------------------------------------------------------------------------
(* JavaScript values *)

Rat(n, d) == [num |-> n, den |-> d]                 \* the number n/d, d > 0
RatEq(a, b) == a.num * b.den = b.num * a.den
RatLess(a, b) == a.num * b.den < b.num * a.den
RatAdd(a, b) == Rat(a.num * b.den + b.num * a.den, a.den * b.den)
RatMul(a, b) == Rat(a.num * b.num, a.den * b.den)
RatSub(a, b) == Rat(a.num * b.den - b.num * a.den, a.den * b.den)
RatMax(a, b) == IF RatLess(a, b) THEN b ELSE a

\* Math.ceil of the number n/d (\div rounds towards minus infinity)
CeilDiv(n, d) == -((-n) \div d)
MathCeil(r) == CeilDiv(r.num, r.den)

\* a number that may be non-finite: quantityNeeded, ndc.size
Num(v) == [kind |-> "finite", v |-> v]
NaN == [kind |-> "NaN", v |-> 0]
Infinity == [kind |-> "Infinity", v |-> 0]
NegInfinity == [kind |-> "-Infinity", v |-> 0]
isFinite(n) == n.kind = "finite"
Truthy(n) == n.kind \in {"Infinity", "-Infinity"} \/ (n.kind = "finite" /\ n.v # 0)
\* GreaterThanZero letting every number but NaN pass (the <= 0 test left out)
AnyNumber(n) == n.kind # "NaN"
GreaterThanZero(n) == n.kind = "Infinity" \/ (n.kind = "finite" /\ n.v > 0)

\* a value passed where a string is expected
Str(t) == [type |-> "string", text |-> t]
Null == [type |-> "null", text |-> ""]

----------------------------------------------------------------------------
(* Strings *)

CharAt(t, i) == SubSeq(t, i, i)
StartsWithAt(t, i, p) == i + Len(p) - 1 <= Len(t) /\ SubSeq(t, i, i + Len(p) - 1) = p
\* String.prototype.includes
Includes(t, p) == \E i \in 1..(Len(t) - Len(p) + 1) : StartsWithAt(t, i, p)
\* the first index at which p occurs in t, 0 when it does not occur
IndexOf(t, p) ==
    IF Includes(t, p)
    THEN CHOOSE i \in 1..Len(t) :
            /\ StartsWithAt(t, i, p)
            /\ \A j \in 1..(i - 1) : ~StartsWithAt(t, j, p)
    ELSE 0

UpperAlphabet == "ABCDEFGHIJKLMNOPQRSTUVWXYZ"
LowerAlphabet == "abcdefghijklmnopqrstuvwxyz"
LowerChar(c) ==
    IF \E k \in 1..26 : CharAt(UpperAlphabet, k) = c
    THEN CharAt(LowerAlphabet, CHOOSE k \in 1..26 : CharAt(UpperAlphabet, k) = c)
    ELSE c

RECURSIVE toLowerCase(_)
toLowerCase(t) ==
    IF t = "" THEN "" ELSE LowerChar(CharAt(t, 1)) \o toLowerCase(SubSeq(t, 2, Len(t)))

IsSpace(c) == c \in {" ", "\t", "\n"}        \* \s
IsDigit(c) == c \in {"0", "1", "2", "3", "4", "5", "6", "7", "8", "9"}   \* \d

RECURSIVE trimStart(_)
trimStart(t) ==
    IF t # "" /\ IsSpace(CharAt(t, 1)) THEN trimStart(SubSeq(t, 2, Len(t))) ELSE t
RECURSIVE trimEnd(_)
trimEnd(t) ==
    IF t # "" /\ IsSpace(CharAt(t, Len(t))) THEN trimEnd(SubSeq(t, 1, Len(t) - 1)) ELSE t
trim(t) == trimEnd(trimStart(t))

\* the index after the longest run of digits (\d*) that starts at i
RECURSIVE DigitsEnd(_, _)
DigitsEnd(t, i) ==
    IF i <= Len(t) /\ IsDigit(CharAt(t, i)) THEN DigitsEnd(t, i + 1) ELSE i
\* the index after the longest run of white space (\s*) that starts at i
RECURSIVE SpacesEnd(_, _)
SpacesEnd(t, i) ==
    IF i <= Len(t) /\ IsSpace(CharAt(t, i)) THEN SpacesEnd(t, i + 1) ELSE i

\* \d+(?:\.\d+)? at i: the index after the match, 0 when there is none
NumberEnd(t, i) ==
    LET e == DigitsEnd(t, i) IN
    IF e = i THEN 0
    ELSE IF StartsWithAt(t, e, ".") /\ DigitsEnd(t, e + 1) > e + 1
         THEN DigitsEnd(t, e + 1)
         ELSE e

DigitValue(c) == CHOOSE v \in 0..9 : ToString(v) = c
RECURSIVE parseInt(_)
parseInt(d) ==
    IF d = "" THEN 0 ELSE 10 * parseInt(SubSeq(d, 1, Len(d) - 1)) + DigitValue(CharAt(d, Len(d)))
RECURSIVE Pow10(_)
Pow10(k) == IF k = 0 THEN 1 ELSE 10 * Pow10(k - 1)
\* parseFloat of a text matched by \d+(?:\.\d+)?
parseFloat(d) ==
    LET dot == IndexOf(d, ".") IN
    IF dot = 0 THEN Rat(parseInt(d), 1)
    ELSE Rat(parseInt(SubSeq(d, 1, dot - 1) \o SubSeq(d, dot + 1, Len(d))),
             Pow10(Len(d) - dot))

----------------------------------------------------------------------------
(* The SIG parser *)

Undefined == "<undefined>"     \* the value of an optional field that is not set

AnyIncluded(t, phrases) == \E p \in phrases : Includes(t, p)

timingPatterns ==
    <<"with food", "with meals", "without food", "empty stomach", "morning",
      "evening", "night", "bedtime", "as needed", "prn">>

extractTiming(text) ==
    LET hits == {k \in 1..Len(timingPatterns) : Includes(text, timingPatterns[k])} IN
    IF hits = {} THEN Undefined
    ELSE timingPatterns[CHOOSE k \in hits : \A j \in hits : k <= j]

extractRoute(text) ==
    IF AnyIncluded(text, {"by mouth", "oral", "po"}) THEN "PO"
    ELSE IF AnyIncluded(text, {"intravenous", "iv"}) THEN "IV"
    ELSE IF AnyIncluded(text, {"intramuscular", "im"}) THEN "IM"
    ELSE IF Includes(text, "topical") THEN "TOPICAL"
    ELSE IF AnyIncluded(text, {"subcutaneous", "subq", "sc"}) THEN "SQ"
    ELSE Undefined

\* /every (\d+) hours/: the digits of the leftmost match, "" when there is none
hoursMatch(text) ==
    LET at(i) == /\ StartsWithAt(text, i, "every ")
                 /\ DigitsEnd(text, i + 6) > i + 6
                 /\ StartsWithAt(text, DigitsEnd(text, i + 6), " hours")
        starts == {i \in 1..Len(text) : at(i)}
        first == CHOOSE i \in starts : \A j \in starts : i <= j
    IN  IF starts = {} THEN "" ELSE SubSeq(text, first + 6, DigitsEnd(text, first + 6) - 1)

\* /(\d+) times daily/: the digits of the leftmost match, "" when there is none
timesDailyMatch(text) ==
    LET at(i) == /\ DigitsEnd(text, i) > i
                 /\ StartsWithAt(text, DigitsEnd(text, i), " times daily")
        starts == {i \in 1..Len(text) : at(i)}
        first == CHOOSE i \in starts : \A j \in starts : i <= j
    IN  IF starts = {} THEN "" ELSE SubSeq(text, first, DigitsEnd(text, first) - 1)

\* extractFrequency trying "N times daily" before "every N hours"
extractFrequencyTimesFirst(text) ==
    IF AnyIncluded(text, {"three times daily", "tid", "t.i.d."})
    THEN [timesPerDay |-> 3, timing |-> extractTiming(text)]
    ELSE IF AnyIncluded(text, {"four times daily", "qid", "q.i.d."})
    THEN [timesPerDay |-> 4, timing |-> extractTiming(text)]
    ELSE IF AnyIncluded(text, {"twice daily", "two times daily", "bid", "b.i.d."})
    THEN [timesPerDay |-> 2, timing |-> extractTiming(text)]
    ELSE IF AnyIncluded(text, {"once daily", "once a day", "qday", "q.d."})
    THEN [timesPerDay |-> 1, timing |-> extractTiming(text)]
    ELSE IF timesDailyMatch(text) # ""
    THEN [timesPerDay |-> parseInt(timesDailyMatch(text)), timing |-> extractTiming(text)]
    ELSE IF hoursMatch(text) # "" /\ parseInt(hoursMatch(text)) > 0
    THEN [timesPerDay |-> CeilDiv(24, parseInt(hoursMatch(text))),
          timing |-> extractTiming(text)]
    ELSE [timesPerDay |-> 1, timing |-> Undefined]

\* extractFrequency rounding 24 / hours down
extractFrequencyFloor(text) ==
    IF AnyIncluded(text, {"three times daily", "tid", "t.i.d."})
    THEN [timesPerDay |-> 3, timing |-> extractTiming(text)]
    ELSE IF AnyIncluded(text, {"four times daily", "qid", "q.i.d."})
    THEN [timesPerDay |-> 4, timing |-> extractTiming(text)]
    ELSE IF AnyIncluded(text, {"twice daily", "two times daily", "bid", "b.i.d."})
    THEN [timesPerDay |-> 2, timing |-> extractTiming(text)]
    ELSE IF AnyIncluded(text, {"once daily", "once a day", "qday", "q.d."})
    THEN [timesPerDay |-> 1, timing |-> extractTiming(text)]
    ELSE IF hoursMatch(text) # "" /\ parseInt(hoursMatch(text)) > 0
    THEN [timesPerDay |-> 24 \div parseInt(hoursMatch(text)),
          timing |-> extractTiming(text)]
    ELSE IF timesDailyMatch(text) # ""
    THEN [timesPerDay |-> parseInt(timesDailyMatch(text)), timing |-> extractTiming(text)]
    ELSE [timesPerDay |-> 1, timing |-> Undefined]

\* extractFrequency with the phrase "four times daily" missing from its pattern
extractFrequencyNoFourTimes(text) ==
    IF AnyIncluded(text, {"three times daily", "tid", "t.i.d."})
    THEN [timesPerDay |-> 3, timing |-> extractTiming(text)]
    ELSE IF AnyIncluded(text, {"qid", "q.i.d."})
    THEN [timesPerDay |-> 4, timing |-> extractTiming(text)]
    ELSE IF AnyIncluded(text, {"twice daily", "two times daily", "bid", "b.i.d."})
    THEN [timesPerDay |-> 2, timing |-> extractTiming(text)]
    ELSE IF AnyIncluded(text, {"once daily", "once a day", "qday", "q.d."})
    THEN [timesPerDay |-> 1, timing |-> extractTiming(text)]
    ELSE IF hoursMatch(text) # "" /\ parseInt(hoursMatch(text)) > 0
    THEN [timesPerDay |-> CeilDiv(24, parseInt(hoursMatch(text))),
          timing |-> extractTiming(text)]
    ELSE IF timesDailyMatch(text) # ""
    THEN [timesPerDay |-> parseInt(timesDailyMatch(text)), timing |-> extractTiming(text)]
    ELSE [timesPerDay |-> 1, timing |-> Undefined]

extractFrequency(text) ==
    IF AnyIncluded(text, {"three times daily", "tid", "t.i.d."})
    THEN [timesPerDay |-> 3, timing |-> extractTiming(text)]
    ELSE IF AnyIncluded(text, {"four times daily", "qid", "q.i.d."})
    THEN [timesPerDay |-> 4, timing |-> extractTiming(text)]
    ELSE IF AnyIncluded(text, {"twice daily", "two times daily", "bid", "b.i.d."})
    THEN [timesPerDay |-> 2, timing |-> extractTiming(text)]
    ELSE IF AnyIncluded(text, {"once daily", "once a day", "qday", "q.d."})
    THEN [timesPerDay |-> 1, timing |-> extractTiming(text)]
    ELSE IF hoursMatch(text) # "" /\ parseInt(hoursMatch(text)) > 0
    THEN [timesPerDay |-> CeilDiv(24, parseInt(hoursMatch(text))),
          timing |-> extractTiming(text)]
    ELSE IF timesDailyMatch(text) # ""
    THEN [timesPerDay |-> parseInt(timesDailyMatch(text)), timing |-> extractTiming(text)]
    ELSE [timesPerDay |-> 1, timing |-> Undefined]

\* the unit alternation of both dosage patterns, in the order the regex tries it
dosageUnits ==
    <<"tablet", "tablets", "capsule", "capsules", "pill", "pills", "ml", "mg", "g", "dose">>

NoMatch == [ok |-> FALSE, amount |-> "", unit |-> "", end |-> 0]

\* /take\s+(\d+(?:\.\d+)?)\s+(tablet|...|dose)/ tried at index i
takePatternAt(t, i) ==
    LET a == i + 4
        b == SpacesEnd(t, a)
        c == NumberEnd(t, b)
        d == SpacesEnd(t, c)
        us == {k \in 1..Len(dosageUnits) : StartsWithAt(t, d, dosageUnits[k])}
        u == dosageUnits[CHOOSE k \in us : \A j \in us : k <= j]
    IN  IF StartsWithAt(t, i, "take") /\ b > a /\ c # 0 /\ d > c /\ us # {}
        THEN [ok |-> TRUE, amount |-> SubSeq(t, b, c - 1), unit |-> u, end |-> d + Len(u)]
        ELSE NoMatch

\* /(\d+(?:\.\d+)?)\s+(tablet|...|dose)\s+(?:take|by mouth|po|oral)/ tried at index i;
\* the unit is the first alternative after which the rest of the pattern matches
routePatternAt(t, i) ==
    LET c == NumberEnd(t, i)
        d == SpacesEnd(t, c)
        tails == <<"take", "by mouth", "po", "oral">>
        tailAt(e) == {k \in 1..Len(tails) : StartsWithAt(t, SpacesEnd(t, e), tails[k])}
        rest(e) == SpacesEnd(t, e) > e /\ tailAt(e) # {}
        us == {k \in 1..Len(dosageUnits) :
                 StartsWithAt(t, d, dosageUnits[k]) /\ rest(d + Len(dosageUnits[k]))}
        u == dosageUnits[CHOOSE k \in us : \A j \in us : k <= j]
        e == d + Len(u)
        tl == tails[CHOOSE k \in tailAt(e) : \A j \in tailAt(e) : k <= j]
    IN  IF c # 0 /\ d > c /\ us # {}
        THEN [ok |-> TRUE, amount |-> SubSeq(t, i, c - 1), unit |-> u,
              end |-> SpacesEnd(t, e) + Len(tl)]
        ELSE NoMatch

\* String.prototype.matchAll with a /g pattern: the matches from index i on, left to
\* right, each search resuming where the previous match ended
RECURSIVE matchAllTake(_, _)
matchAllTake(t, i) ==
    IF i > Len(t) THEN <<>>
    ELSE IF takePatternAt(t, i).ok
         THEN <<takePatternAt(t, i)>> \o matchAllTake(t, takePatternAt(t, i).end)
         ELSE matchAllTake(t, i + 1)
RECURSIVE matchAllRoute(_, _)
matchAllRoute(t, i) ==
    IF i > Len(t) THEN <<>>
    ELSE IF routePatternAt(t, i).ok
         THEN <<routePatternAt(t, i)>> \o matchAllRoute(t, routePatternAt(t, i).end)
         ELSE matchAllRoute(t, i + 1)

\* unit.replace(/s$/, '')
removePlural(unit) ==
    IF unit # "" /\ CharAt(unit, Len(unit)) = "s" THEN SubSeq(unit, 1, Len(unit) - 1) ELSE unit

\* /(\d+(?:\.\d+)?)/: the text of the leftmost match, "" when there is none
numberMatch(t) ==
    LET starts == {i \in 1..Len(t) : IsDigit(CharAt(t, i))}
        first == CHOOSE i \in starts : \A j \in starts : i <= j
    IN  IF starts = {} THEN "" ELSE SubSeq(t, first, NumberEnd(t, first) - 1)

writtenNumbers ==
    <<"one", "two", "three", "four", "five", "six", "seven", "eight", "nine", "ten">>

\* /(one|two|...|ten)/i: the value of the leftmost match, 0 when there is none
writtenNumberMatch(t) ==
    LET at(i) == {k \in 1..Len(writtenNumbers) : StartsWithAt(t, i, writtenNumbers[k])}
        starts == {i \in 1..Len(t) : at(i) # {}}
        first == CHOOSE i \in starts : \A j \in starts : i <= j
    IN  IF starts = {} THEN 0 ELSE CHOOSE k \in at(first) : \A j \in at(first) : k <= j

\* SumDose adding the amounts without their frequency
RECURSIVE SumAmounts(_)
SumAmounts(instructions) ==
    IF instructions = <<>> THEN Rat(0, 1)
    ELSE RatAdd(SumAmounts(SubSeq(instructions, 1, Len(instructions) - 1)),
                instructions[Len(instructions)].amount)

RECURSIVE SumDose(_)
SumDose(instructions) ==
    IF instructions = <<>> THEN Rat(0, 1)
    ELSE RatAdd(SumDose(SubSeq(instructions, 1, Len(instructions) - 1)),
                RatMul(instructions[Len(instructions)].amount,
                       Rat(instructions[Len(instructions)].frequency, 1)))

Max(a, b) == IF a >= b THEN a ELSE b

\* parseSIG collecting the matches of both dosage patterns
parseSIGAllPatterns(text) ==
    LET normalizedSIG == trim(toLowerCase(text))
        isPRN == \/ Includes(normalizedSIG, "as needed")
                 \/ Includes(normalizedSIG, "prn")
                 \/ Includes(normalizedSIG, "p.r.n.")
        frequency == extractFrequency(normalizedSIG)
        first == matchAllTake(normalizedSIG, 1)
        matches == first \o matchAllRoute(normalizedSIG, 1)
        instruction(amount, unit) ==
            [amount |-> amount, unit |-> unit, frequency |-> frequency.timesPerDay,
             timing |-> frequency.timing, route |-> extractRoute(normalizedSIG)]
        primary == [k \in 1..Len(matches) |->
                      instruction(parseFloat(matches[k].amount), removePlural(matches[k].unit))]
        parsedAmount ==
            IF numberMatch(normalizedSIG) # "" THEN parseFloat(numberMatch(normalizedSIG))
            ELSE Rat(writtenNumberMatch(normalizedSIG), 1)
    IN  IF matches # <<>>
        THEN [originalSIG |-> text,
              dosageInstructions |-> primary,
              totalDailyDose |-> SumDose(primary),
              dailyFrequency |-> Max(1, frequency.timesPerDay),
              prn |-> isPRN]
        ELSE IF parsedAmount.num > 0
        THEN [originalSIG |-> text,
              dosageInstructions |-> <<instruction(parsedAmount, "tablet")>>,
              totalDailyDose |-> RatMul(parsedAmount, Rat(frequency.timesPerDay, 1)),
              dailyFrequency |-> frequency.timesPerDay,
              prn |-> isPRN]
        ELSE [originalSIG |-> text,
              dosageInstructions |-> <<>>,
              totalDailyDose |-> Rat(0, 1),
              dailyFrequency |-> 1,
              prn |-> isPRN]

\* parseSIG whose fallback looks for a number word before a numeral
parseSIGWordFirst(text) ==
    LET normalizedSIG == trim(toLowerCase(text))
        isPRN == \/ Includes(normalizedSIG, "as needed")
                 \/ Includes(normalizedSIG, "prn")
                 \/ Includes(normalizedSIG, "p.r.n.")
        frequency == extractFrequency(normalizedSIG)
        first == matchAllTake(normalizedSIG, 1)
        matches == IF first # <<>> THEN first ELSE matchAllRoute(normalizedSIG, 1)
        instruction(amount, unit) ==
            [amount |-> amount, unit |-> unit, frequency |-> frequency.timesPerDay,
             timing |-> frequency.timing, route |-> extractRoute(normalizedSIG)]
        primary == [k \in 1..Len(matches) |->
                      instruction(parseFloat(matches[k].amount), removePlural(matches[k].unit))]
        parsedAmount ==
            IF writtenNumberMatch(normalizedSIG) # 0
            THEN Rat(writtenNumberMatch(normalizedSIG), 1)
            ELSE IF numberMatch(normalizedSIG) # "" THEN parseFloat(numberMatch(normalizedSIG))
            ELSE Rat(0, 1)
    IN  IF matches # <<>>
        THEN [originalSIG |-> text,
              dosageInstructions |-> primary,
              totalDailyDose |-> SumDose(primary),
              dailyFrequency |-> Max(1, frequency.timesPerDay),
              prn |-> isPRN]
        ELSE IF parsedAmount.num > 0
        THEN [originalSIG |-> text,
              dosageInstructions |-> <<instruction(parsedAmount, "tablet")>>,
              totalDailyDose |-> RatMul(parsedAmount, Rat(frequency.timesPerDay, 1)),
              dailyFrequency |-> frequency.timesPerDay,
              prn |-> isPRN]
        ELSE [originalSIG |-> text,
              dosageInstructions |-> <<>>,
              totalDailyDose |-> Rat(0, 1),
              dailyFrequency |-> 1,
              prn |-> isPRN]

\* parseSIG on a string
parseSIG(text) ==
    LET normalizedSIG == trim(toLowerCase(text))
        isPRN == \/ Includes(normalizedSIG, "as needed")
                 \/ Includes(normalizedSIG, "prn")
                 \/ Includes(normalizedSIG, "p.r.n.")
        frequency == extractFrequency(normalizedSIG)
        first == matchAllTake(normalizedSIG, 1)
        matches == IF first # <<>> THEN first ELSE matchAllRoute(normalizedSIG, 1)
        instruction(amount, unit) ==
            [amount |-> amount, unit |-> unit, frequency |-> frequency.timesPerDay,
             timing |-> frequency.timing, route |-> extractRoute(normalizedSIG)]
        primary == [k \in 1..Len(matches) |->
                      instruction(parseFloat(matches[k].amount), removePlural(matches[k].unit))]
        parsedAmount ==
            IF numberMatch(normalizedSIG) # "" THEN parseFloat(numberMatch(normalizedSIG))
            ELSE Rat(writtenNumberMatch(normalizedSIG), 1)
    IN  IF matches # <<>>
        THEN [originalSIG |-> text,
              dosageInstructions |-> primary,
              totalDailyDose |-> SumDose(primary),
              dailyFrequency |-> Max(1, frequency.timesPerDay),
              prn |-> isPRN]
        ELSE IF parsedAmount.num > 0
        THEN [originalSIG |-> text,
              dosageInstructions |-> <<instruction(parsedAmount, "tablet")>>,
              totalDailyDose |-> RatMul(parsedAmount, Rat(frequency.timesPerDay, 1)),
              dailyFrequency |-> frequency.timesPerDay,
              prn |-> isPRN]
        ELSE [originalSIG |-> text,
              dosageInstructions |-> <<>>,
              totalDailyDose |-> Rat(0, 1),
              dailyFrequency |-> 1,
              prn |-> isPRN]

\* sig.toLowerCase() raises a TypeError when sig is not a string
parseSIGThrows(s) == s.type # "string"

----------------------------------------------------------------------------
(* Total quantity *)

NoParsedSIG ==
    [originalSIG |-> "", dosageInstructions |-> <<>>, totalDailyDose |-> Rat(0, 1),
     dailyFrequency |-> 1, prn |-> FALSE]

\* a call that ended by an exception leaving the function
Propagated(message, d) ==
    [threw |-> TRUE, success |-> FALSE, totalQuantity |-> 0, unit |-> "",
     sig |-> NoParsedSIG, daysSupply |-> d, error |-> message]

\* adjustedQuantity taking the smaller of the two PRN quantities
adjustedQuantityMin(parsed, d) ==
    LET totalQuantity == RatMul(parsed.totalDailyDose, Rat(d, 1))
        a == RatMul(totalQuantity, Rat(7, 10))
        b == RatSub(totalQuantity, Rat(10, 1))
    IN  IF parsed.prn THEN (IF RatLess(a, b) THEN a ELSE b) ELSE totalQuantity

\* adjustedQuantity subtracting 10 for every PRN medication
adjustedQuantityMinusTen(parsed, d) ==
    LET totalQuantity == RatMul(parsed.totalDailyDose, Rat(d, 1)) IN
    IF parsed.prn THEN RatSub(totalQuantity, Rat(10, 1)) ELSE totalQuantity

\* the PRN adjustment of lines 137-141
adjustedQuantity(parsed, d) ==
    LET totalQuantity == RatMul(parsed.totalDailyDose, Rat(d, 1)) IN
    IF parsed.prn
    THEN RatMax(RatMul(totalQuantity, Rat(7, 10)), RatSub(totalQuantity, Rat(10, 1)))
    ELSE totalQuantity

\* quantityFromParsed without the check for an empty instruction list
quantityFromParsedUnchecked(parsed, d) ==
    [threw |-> FALSE, success |-> TRUE,
     totalQuantity |-> MathCeil(RatMul(parsed.totalDailyDose, Rat(d, 1))),
     unit |-> "", sig |-> parsed, daysSupply |-> d, error |-> Undefined]

\* quantityFromParsed refusing a daysSupply that is not positive
quantityFromParsedPositiveDays(parsed, d) ==
    IF Len(parsed.dosageInstructions) = 0 \/ d <= 0
    THEN [threw |-> FALSE, success |-> FALSE, totalQuantity |-> 0, unit |-> "",
          sig |-> parsed, daysSupply |-> d,
          error |-> "Could not parse dosage instructions from SIG"]
    ELSE [threw |-> FALSE, success |-> TRUE,
          totalQuantity |-> MathCeil(adjustedQuantity(parsed, d)),
          unit |-> parsed.dosageInstructions[1].unit,
          sig |-> parsed, daysSupply |-> d, error |-> Undefined]

\* the body of the try block, given the ParsedSIG that parseSIG returned
quantityFromParsed(parsed, d) ==
    IF Len(parsed.dosageInstructions) = 0
    THEN [threw |-> FALSE, success |-> FALSE, totalQuantity |-> 0, unit |-> "",
          sig |-> parsed, daysSupply |-> d,
          error |-> "Could not parse dosage instructions from SIG"]
    ELSE [threw |-> FALSE, success |-> TRUE,
          totalQuantity |-> MathCeil(adjustedQuantity(parsed, d)),
          unit |-> parsed.dosageInstructions[1].unit,
          sig |-> parsed, daysSupply |-> d, error |-> Undefined]

\* The only statement of the try block that can raise is parseSIG(sig); the catch
\* block builds its result from parseSIG(sig) again, which raises for the same sig.
calculateDispenseQuantity(s, d) ==
    IF ~parseSIGThrows(s)
    THEN quantityFromParsed(parseSIG(s.text), d)
    ELSE IF parseSIGThrows(s)
         THEN Propagated("TypeError", d)
         ELSE [threw |-> FALSE, success |-> FALSE, totalQuantity |-> 0, unit |-> "",
               sig |-> parseSIG(s.text), daysSupply |-> d, error |-> "TypeError"]

----------------------------------------------------------------------------
(* Package optimization *)

\* calculateEfficiency counting one package more than the whole packages in q
calculateEfficiencyExtraPackage(q, packageSize) ==
    LET packagesRequired == (q \div packageSize) + 1
        totalProvided == packagesRequired * packageSize
        waste == totalProvided - q
    IN  Rat(waste, q)

calculateEfficiency(q, packageSize) ==
    LET packagesRequired == CeilDiv(q, packageSize)
        totalProvided == packagesRequired * packageSize
        waste == totalProvided - q
    IN  Rat(waste, q)

\* isValidActive without the status test
isValidActiveAnyStatus(ndc) ==
    /\ Truthy(ndc.size)
    /\ GreaterThanZero(ndc.size)
    /\ isFinite(ndc.size)
    /\ ndc.package_ndc # ""

\* the filter of lines 211-217
isValidActive(ndc) ==
    /\ ndc.status = "active"
    /\ Truthy(ndc.size)
    /\ GreaterThanZero(ndc.size)
    /\ isFinite(ndc.size)
    /\ ndc.package_ndc # ""

RECURSIVE filterActive(_)
filterActive(ndcs) ==
    IF ndcs = <<>> THEN <<>>
    ELSE filterActive(SubSeq(ndcs, 1, Len(ndcs) - 1))
         \o (IF isValidActive(ndcs[Len(ndcs)]) THEN <<ndcs[Len(ndcs)]>> ELSE <<>>)

\* makeCandidate rounding the number of packages down
makeCandidateFloor(q, ndc) ==
    [ndc |-> ndc.package_ndc,
     packageSize |-> ndc.size.v,
     packageDescription |->
        IF ndc.description # "" THEN ndc.description ELSE "Package description unavailable",
     status |-> ndc.status,
     quantityNeeded |-> q,
     packagesRequired |-> q \div ndc.size.v,
     efficiency |-> calculateEfficiency(q, ndc.size.v)]

\* makeCandidate dividing the package size by the quantity
makeCandidateSwapped(q, ndc) ==
    [ndc |-> ndc.package_ndc,
     packageSize |-> ndc.size.v,
     packageDescription |->
        IF ndc.description # "" THEN ndc.description ELSE "Package description unavailable",
     status |-> ndc.status,
     quantityNeeded |-> q,
     packagesRequired |-> CeilDiv(ndc.size.v, q),
     efficiency |-> calculateEfficiency(q, ndc.size.v)]

makeCandidate(q, ndc) ==
    [ndc |-> ndc.package_ndc,
     packageSize |-> ndc.size.v,
     packageDescription |->
        IF ndc.description # "" THEN ndc.description ELSE "Package description unavailable",
     status |-> ndc.status,
     quantityNeeded |-> q,
     packagesRequired |-> CeilDiv(q, ndc.size.v),
     efficiency |-> calculateEfficiency(q, ndc.size.v)]

\* comesAfter with a comparator that also moves x ahead of its equals
comesAfterOrEqual(a, b) == ~RatLess(a.efficiency, b.efficiency)

\* the comparator (a, b) => a.efficiency - b.efficiency is positive
comesAfter(a, b) == RatLess(b.efficiency, a.efficiency)

\* Array.prototype.sort is stable: x goes behind every element it does not precede
RECURSIVE insertSorted(_, _)
insertSorted(sorted, x) ==
    IF sorted = <<>> THEN <<x>>
    ELSE IF comesAfter(sorted[Len(sorted)], x)
         THEN insertSorted(SubSeq(sorted, 1, Len(sorted) - 1), x) \o <<sorted[Len(sorted)]>>
         ELSE sorted \o <<x>>
RECURSIVE sortByEfficiency(_)
sortByEfficiency(cs) ==
    IF cs = <<>> THEN <<>>
    ELSE insertSorted(sortByEfficiency(SubSeq(cs, 1, Len(cs) - 1)), cs[Len(cs)])

\* bestFrom replacing bestCandidate also on an equal efficiency (<= for <)
RECURSIVE bestFromLastTie(_, _, _, _)
bestFromLastTie(q, candidates, k, best) ==
    IF k > Len(candidates) THEN best
    ELSE IF ~RatLess(calculateEfficiency(q, candidates[best].packageSize),
                     calculateEfficiency(q, candidates[k].packageSize))
         THEN bestFromLastTie(q, candidates, k + 1, k)
         ELSE bestFromLastTie(q, candidates, k + 1, best)

\* the loop of lines 377-386 over candidates[k..]: the index of bestCandidate
RECURSIVE bestFrom(_, _, _, _)
bestFrom(q, candidates, k, best) ==
    IF k > Len(candidates) THEN best
    ELSE IF RatLess(calculateEfficiency(q, candidates[k].packageSize),
                    calculateEfficiency(q, candidates[best].packageSize))
         THEN bestFrom(q, candidates, k + 1, k)
         ELSE bestFrom(q, candidates, k + 1, best)
bestIndex(q, candidates) == bestFrom(q, candidates, 1, 1)

\* updateBest rounding the number of packages to the nearest integer
updateBestRounded(q, c) ==
    [c EXCEPT !.packagesRequired = (2 * q + c.packageSize) \div (2 * c.packageSize),
              !.efficiency = calculateEfficiency(q, c.packageSize)]

\* lines 388-390: bestCandidate is updated in place; it is an element of candidates
updateBest(q, c) ==
    [c EXCEPT !.packagesRequired = CeilDiv(q, c.packageSize),
              !.efficiency = calculateEfficiency(q, c.packageSize)]

\* the candidates array after the call, and the combination returned
findOptimalCombination(q, candidates) ==
    IF Len(candidates) = 0
    THEN [candidates |-> candidates, combination |-> <<>>]
    ELSE LET b == bestIndex(q, candidates) IN
         [candidates |-> [candidates EXCEPT ![b] = updateBest(q, candidates[b])],
          combination |-> <<updateBest(q, candidates[b])>>]

RECURSIVE sumPackages(_)
sumPackages(cs) ==
    IF cs = <<>> THEN 0 ELSE cs[1].packagesRequired + sumPackages(Tail(cs))
\* sumProvided adding one package of each size, whatever packagesRequired is
RECURSIVE sumProvidedOnePackage(_)
sumProvidedOnePackage(cs) ==
    IF cs = <<>> THEN 0 ELSE cs[1].packageSize + sumProvidedOnePackage(Tail(cs))
RECURSIVE sumProvided(_)
sumProvided(cs) ==
    IF cs = <<>> THEN 0 ELSE cs[1].packagesRequired * cs[1].packageSize + sumProvided(Tail(cs))

\* Failure with one message for every failure
FailureGeneric(message) ==
    [success |-> FALSE, candidates |-> <<>>, optimalCombination |-> <<>>,
     totalQuantity |-> 0, totalPackages |-> 0, waste |-> 0,
     error |-> "NDC optimization failed"]

Failure(message) ==
    [success |-> FALSE, candidates |-> <<>>, optimalCombination |-> <<>>,
     totalQuantity |-> 0, totalPackages |-> 0, waste |-> 0, error |-> message]

optimizeNDCSelection(q, ndcs) ==
    IF ~Truthy(q) \/ ~GreaterThanZero(q) \/ ~isFinite(q)
    THEN Failure("Invalid quantity needed for optimization")
    ELSE IF ~ndcs.isArray \/ Len(ndcs.items) = 0
    THEN Failure("No NDC data available for optimization")
    ELSE IF Len(filterActive(ndcs.items)) = 0
    THEN Failure("No valid active NDCs available for optimization")
    ELSE LET activeNDCs == filterActive(ndcs.items)
             candidates == sortByEfficiency(
                              [k \in 1..Len(activeNDCs) |-> makeCandidate(q.v, activeNDCs[k])])
             found == findOptimalCombination(q.v, candidates)
         IN  [success |-> TRUE,
              candidates |-> found.candidates,
              optimalCombination |-> found.combination,
              totalQuantity |-> q.v,
              totalPackages |-> sumPackages(found.combination),
              waste |-> Max(0, sumProvided(found.combination) - q.v),
              error |-> Undefined]

----------------------------------------------------------------------------
(* Inputs *)

freqPhrases == <<"once daily", "twice daily", "three times daily", "four times daily">>

\* "Take <amount> tablet(s) <phrase>", alone and with a PRN suffix
NamedSigs ==
    {"Take " \o ToString(a) \o " " \o u \o " " \o freqPhrases[f] \o p :
        a \in 1..MaxAmount, u \in {"tablet", "tablets", "tablet(s)"}, f \in 1..4,
        p \in {"", " as needed", " PRN"}}

ComposedSigs ==
    {v \o a \o u \o r \o f \o p :
        v \in {"Take ", ""},
        a \in {ToString(n) : n \in 1..MaxAmount} \cup {"0", "0.5"},
        u \in {" tablet", " capsules"},
        r \in {"", " by mouth"},
        f \in {"", " BID", " every 6 hours", " 3 times daily"},
        p \in {"", " as needed", " p.r.n."}}

\* the texts of the repository's tests, and texts without a dose
TestSigs ==
    {"Take 1 tablet by mouth twice daily", "Take 1 tablet by mouth twice daily as needed",
     "Take 2 capsules PO BID", "Take 1 tablet by mouth three times daily with food",
     "Take 1 tablet by mouth as needed for pain", "Take 1 tablet TID", "Take 2 tablets QID",
     "Take 1 tablet by mouth every 6 hours", "One tablet twice daily",
     "Invalid SIG format", "Invalid SIG", "Take 0.5 tablet by mouth twice daily",
     "Take 1 tablet by mouth as needed", "Take 2 capsules by mouth three times daily",
     "Take 1 tablet daily", "Take 1 tablet BID", "Take 2 tablets TID", "",
     "  Take 1 tablet in the morning and take 2 tablets at bedtime ",
     "Apply to skin prn", "Use 0 drops prn"}

\* texts that match several frequency rules at once, or carry a zero
EdgeSigs ==
    {"take 0 tablets", "Take 1 tablet 0 times daily", "Take 1 tablet 10 times daily",
     "Take 1 tablet and take 2 tablets twice daily",
     "Take 1 tablet twice daily or TID", "Take 1 tablet QID or twice daily",
     "Take 1 tablet once daily or BID", "Take 2 tablets every 6 hours or 2 times daily",
     "Take 2 tablets once a day every 8 hours", "Take 1 tablet every 0 hours 5 times daily",
     "Take 1 tablet every 0 hours", "Take 1 tablet four times daily every 12 hours tid",
     "2 tablets every 5 hours", "Take 1 tablet every 24 hours",
     "Take 1 tablet every 48 hours", "Take 1 tablet every 7 hours",
     "Two tablets 3 times daily", "Take 1 tablet with food",
     "Take 1 tablet and take 1 tablet twice daily", "Take one often"}

SigTexts == NamedSigs \cup ComposedSigs \cup TestSigs \cup EdgeSigs
SigInputs == {Str(t) : t \in SigTexts} \cup {Null}
DaysSupplies == (-1..MaxDays) \cup {-5, 14, 30}

Packages ==
    {[package_ndc |-> "12345-101-01", description |-> "100 tablets in 1 bottle",
      size |-> Num(100), status |-> "active"],
     [package_ndc |-> "12345-101-02", description |-> "30 tablets in 1 bottle",
      size |-> Num(30), status |-> "active"],
     [package_ndc |-> "12345-101-03", description |-> "500 tablets in 1 bottle",
      size |-> Num(500), status |-> "active"],
     [package_ndc |-> "12345-101-04", description |-> "60 tablets in 1 bottle",
      size |-> Num(60), status |-> "inactive"],
     [package_ndc |-> "12345-101-05", description |-> "",
      size |-> Num(60), status |-> "active"],
     [package_ndc |-> "12345-101-06", description |-> "50 tablets in 1 bottle",
      size |-> Num(50), status |-> "active"],
     [package_ndc |-> "", description |-> "45 tablets in 1 bottle",
      size |-> Num(45), status |-> "active"],
     [package_ndc |-> "12345-101-08", description |-> "1 kit",
      size |-> Num(0), status |-> "active"],
     [package_ndc |-> "12345-101-09", description |-> "bulk",
      size |-> Infinity, status |-> "active"],
     [package_ndc |-> "12345-101-10", description |-> "unknown",
      size |-> NaN, status |-> "active"]}

RECURSIVE SeqsUpTo(_, _)
SeqsUpTo(S, n) ==
    IF n = 0 THEN {<<>>}
    ELSE LET shorter == SeqsUpTo(S, n - 1) IN
         shorter \cup {Append(q, x) : q \in shorter, x \in S}

Catalogs ==
    {[isArray |-> TRUE, items |-> items] : items \in SeqsUpTo(Packages, MaxCatalogLen)}
    \cup {[isArray |-> FALSE, items |-> <<>>]}

Quantities ==
    {Num(15), Num(45), Num(60), Num(250), Num(0), Num(-30), NaN, Infinity, NegInfinity}

----------------------------------------------------------------------------
(* The calls.  QuantityCalculator keeps nothing between calls, so a behaviour *)
(* is one call with arguments of the caller's choice.                         *)

NoCall == [success |-> FALSE]
NoPrevious == [called |-> FALSE, quantityNeeded |-> 0, optimalCombination |-> <<>>,
               totalPackages |-> 0]

\* writable<ToastStore>({ toasts: [] }), no timer pending, no id generated
EmptyStore == [toasts |-> <<>>, timers |-> {}, created |-> 0]

\* a result variable of the page holding null
NoResult == [by |-> 0, success |-> FALSE]

\* the page's variables as declared at the top of its script
InitialPage ==
    [drugInput |-> "", sig |-> "", daysSupply |-> "", errors |-> {},
     isSubmitting |-> FALSE, submitMessageType |-> "", showApiResults |-> FALSE,
     normalizationResult |-> NoResult, ndcResult |-> NoResult,
     quantityResult |-> NoResult, optimizedNDCResult |-> NoResult]

\* a handleSubmit invocation that has not started
UnusedRun ==
    [pc |-> "unused", drugInput |-> "", sig |-> "", daysSupply |-> 0,
     isLikelyNDC |-> FALSE, steps |-> <<>>]

\* no request received
NoRequest == [pc |-> "idle", sig |-> "", daysSupply |-> 0, steps |-> <<>>, status |-> 0]

Init ==
    /\ toastStore = EmptyStore
    /\ page = InitialPage
    /\ runs = [r \in 1..MaxRuns |-> UnusedRun]
    /\ post = NoRequest
    /\ pc = "idle"
    /\ sig = Null
    /\ daysSupply = 0
    /\ quantityNeeded = NaN
    /\ availableNDCs = [isArray |-> FALSE, items |-> <<>>]
    /\ parsedSIG = NoParsedSIG
    /\ quantityResult = NoCall
    /\ ndcResult = NoCall
    /\ previous = NoPrevious

ParseSIG ==
    /\ pc = "idle"
    /\ \E t \in SigTexts :
        /\ sig' = Str(t)
        /\ parsedSIG' = parseSIG(t)
    /\ pc' = "parseSIG"
    /\ UNCHANGED <<daysSupply, quantityNeeded, availableNDCs, quantityResult, ndcResult, previous>>
    /\ UNCHANGED callerVars

CalculateDispenseQuantity ==
    /\ pc = "idle"
    /\ \E s \in SigInputs, d \in DaysSupplies :
        /\ sig' = s
        /\ daysSupply' = d
        /\ quantityResult' = calculateDispenseQuantity(s, d)
    /\ pc' = "calculateDispenseQuantity"
    /\ UNCHANGED <<quantityNeeded, availableNDCs, parsedSIG, ndcResult, previous>>
    /\ UNCHANGED callerVars

OptimizeNDCSelection ==
    /\ pc = "idle"
    /\ \E q \in Quantities, ndcs \in Catalogs :
        /\ quantityNeeded' = q
        /\ availableNDCs' = ndcs
        /\ ndcResult' = optimizeNDCSelection(q, ndcs)
    /\ pc' = "optimizeNDCSelection"
    /\ UNCHANGED <<sig, daysSupply, parsedSIG, quantityResult, previous>>
    /\ UNCHANGED callerVars

Next == ParseSIG \/ CalculateDispenseQuantity \/ OptimizeNDCSelection

Spec == Init /\ [][Next]_vars

\* A caller that has a successful result asks again for the same catalog with a
\* quantity that is not smaller, and keeps what the first call selected.
RaiseQuantity ==
    /\ pc = "optimizeNDCSelection"
    /\ ndcResult.success
    /\ ~previous.called
    /\ \E q \in Quantities :
        /\ isFinite(q)
        /\ q.v >= quantityNeeded.v
        /\ quantityNeeded' = q
        /\ ndcResult' = optimizeNDCSelection(q, availableNDCs)
    /\ previous' = [called |-> TRUE, quantityNeeded |-> quantityNeeded.v,
                    optimalCombination |-> ndcResult.optimalCombination,
                    totalPackages |-> ndcResult.totalPackages]
    /\ UNCHANGED <<pc, sig, daysSupply, availableNDCs, parsedSIG, quantityResult>>
    /\ UNCHANGED callerVars

NextRaise == OptimizeNDCSelection \/ RaiseQuantity

SpecRaise == Init /\ [][NextRaise]_vars

----------------------------------------------------------------------------
(* Properties of calculateDispenseQuantity *)

Returned == pc = "calculateDispenseQuantity" /\ ~quantityResult.threw

\* the text is PRN: it contains "as needed", "prn" or "p.r.n.", in any letter case
IsPRNText(t) ==
    \E p \in {"as needed", "prn", "p.r.n."} : Includes(toLowerCase(t), p)

\* C1: "Take <amount> tablet(s) <phrase>" with the named phrase of f in 1..4, no PRN
\* wording and a positive daysSupply succeeds with totalQuantity = amount * f * days.
C1_NamedFrequencyQuantity ==
    pc = "calculateDispenseQuantity" /\ daysSupply > 0 =>
        \A a \in 1..MaxAmount, f \in 1..4, u \in {"tablet", "tablets", "tablet(s)"} :
            sig.text = "Take " \o ToString(a) \o " " \o u \o " " \o freqPhrases[f] =>
                /\ ~quantityResult.threw
                /\ quantityResult.success
                /\ quantityResult.totalQuantity = a * f * daysSupply

C1_Witness ==
    /\ pc = "calculateDispenseQuantity"
    /\ sig.text = "Take 2 tablets four times daily"
    /\ daysSupply = 14
    /\ quantityResult.success
    /\ quantityResult.totalQuantity = 112

\* C2: for a parseable SIG, with raw = totalDailyDose * daysSupply, totalQuantity is
\* ceil(max(0.7 * raw, raw - 10)) when the text is PRN and ceil(raw) when it is not.
C2_PRNDiscount ==
    Returned /\ Len(quantityResult.sig.dosageInstructions) > 0 =>
        LET raw == Rat(quantityResult.sig.totalDailyDose.num * daysSupply,
                       quantityResult.sig.totalDailyDose.den)
            discounted == CeilDiv(7 * raw.num, 10 * raw.den)
            lessTen == CeilDiv(raw.num - 10 * raw.den, raw.den)
        IN  quantityResult.totalQuantity =
                IF IsPRNText(sig.text) THEN Max(discounted, lessTen)
                ELSE CeilDiv(raw.num, raw.den)

\* the PRN text of the tests: raw = 60, max(42, 50) = 50
C2_Witness ==
    /\ Returned
    /\ sig.text = "Take 1 tablet by mouth twice daily as needed"
    /\ daysSupply = 30
    /\ quantityResult.totalQuantity = 50

\* C3: when parseSIG yields no dosage instruction for the text, the call returns
\* success = false, totalQuantity = 0 and the "Could not parse" message, whatever
\* daysSupply is.
C3_UnparseableFails ==
    pc = "calculateDispenseQuantity" /\ sig.type = "string"
        /\ Len(parseSIG(sig.text).dosageInstructions) = 0 =>
            /\ ~quantityResult.threw
            /\ ~quantityResult.success
            /\ quantityResult.totalQuantity = 0
            /\ Includes(quantityResult.error, "Could not parse dosage instructions")

C3_Witness ==
    /\ Returned
    /\ sig.text = "Invalid SIG"
    /\ daysSupply = 30
    /\ ~quantityResult.success
    /\ quantityResult.error = "Could not parse dosage instructions from SIG"

\* C4: calculateDispenseQuantity never lets an exception reach its caller: when a
\* step raises, the parser included, it still returns success = false,
\* totalQuantity = 0 and the raised message.
C4_NeverPropagates ==
    pc = "calculateDispenseQuantity" =>
        /\ ~quantityResult.threw
        /\ parseSIGThrows(sig) =>
              /\ ~quantityResult.success
              /\ quantityResult.totalQuantity = 0
              /\ quantityResult.error = "TypeError"

----------------------------------------------------------------------------
(* Properties of optimizeNDCSelection *)

Optimized == pc = "optimizeNDCSelection" /\ ndcResult.success

\* The catalog entries that may become candidates, stated on the catalog itself:
\* status "active", a finite size > 0 and a package code.
Eligible(i) ==
    LET e == availableNDCs.items[i] IN
    /\ e.status = "active"
    /\ e.size.kind = "finite"
    /\ e.size.v > 0
    /\ e.package_ndc # ""
EligibleIndices == {i \in 1..Len(availableNDCs.items) : Eligible(i)}

\* the least n with n * size >= q, and the units left over
PackagesFor(q, size) == CHOOSE n \in 0..q : n * size >= q /\ (n = 0 \/ (n - 1) * size < q)
WasteOf(i) ==
    LET size == availableNDCs.items[i].size.v IN
    PackagesFor(quantityNeeded.v, size) * size - quantityNeeded.v

ScoredFor(c, q) ==
    /\ c.packagesRequired = PackagesFor(q, c.packageSize)
    /\ RatEq(c.efficiency, Rat(c.packagesRequired * c.packageSize - q, q))
    /\ c.quantityNeeded = q

InCatalog(code, size) ==
    Cardinality({i \in EligibleIndices :
                    /\ availableNDCs.items[i].package_ndc = code
                    /\ availableNDCs.items[i].size.v = size})
InCandidates(code, size) ==
    Cardinality({k \in 1..Len(ndcResult.candidates) :
                    /\ ndcResult.candidates[k].ndc = code
                    /\ ndcResult.candidates[k].packageSize = size})

\* C7: the candidates are, one for one, the catalog entries with status "active", a
\* finite size > 0 and a package code; no other entry is in candidates or in
\* optimalCombination.
C7_CandidatesAreEligibleEntries ==
    Optimized =>
        /\ Len(ndcResult.candidates) = Cardinality(EligibleIndices)
        /\ \A i \in EligibleIndices :
              InCandidates(availableNDCs.items[i].package_ndc, availableNDCs.items[i].size.v)
                 = InCatalog(availableNDCs.items[i].package_ndc, availableNDCs.items[i].size.v)
        /\ \A k \in 1..Len(ndcResult.candidates) :
              LET c == ndcResult.candidates[k] IN
              /\ c.status = "active" /\ c.packageSize > 0 /\ c.ndc # ""
              /\ InCatalog(c.ndc, c.packageSize) > 0
        /\ \A k \in 1..Len(ndcResult.optimalCombination) :
              LET c == ndcResult.optimalCombination[k] IN
              /\ c.status = "active" /\ c.packageSize > 0 /\ c.ndc # ""
              /\ InCatalog(c.ndc, c.packageSize) > 0

\* an inactive exact fit and an entry without a code are left out
C7_Witness ==
    /\ Optimized
    /\ quantityNeeded = Num(60)
    /\ Len(availableNDCs.items) = 3
    /\ availableNDCs.items[1].status = "inactive"
    /\ availableNDCs.items[2].package_ndc = ""
    /\ availableNDCs.items[3].size = Num(100)
    /\ Len(ndcResult.candidates) = 1

\* the codes of the candidates, and of the eligible catalog entries, whose waste is w,
\* each in its own order
CandidateCodesAt(w) ==
    LET hit(c) == c.packagesRequired * c.packageSize - quantityNeeded.v = w
        hits == SelectSeq(ndcResult.candidates, hit)
    IN  [k \in 1..Len(hits) |-> hits[k].ndc]
RECURSIVE CatalogCodesAt(_, _)
CatalogCodesAt(w, n) ==
    IF n = 0 THEN <<>>
    ELSE CatalogCodesAt(w, n - 1)
         \o (IF Eligible(n) /\ WasteOf(n) = w
             THEN <<availableNDCs.items[n].package_ndc>> ELSE <<>>)

\* C8: candidates is sorted ascending by efficiency, and candidates of equal
\* efficiency stand in their catalog input order.
C8_SortedStable ==
    Optimized =>
        /\ \A j \in 1..Len(ndcResult.candidates) : \A i \in 1..(j - 1) :
              ~RatLess(ndcResult.candidates[j].efficiency, ndcResult.candidates[i].efficiency)
        /\ \A i \in EligibleIndices :
              CandidateCodesAt(WasteOf(i)) = CatalogCodesAt(WasteOf(i), Len(availableNDCs.items))

\* sizes 50 and 100 both waste 40 of 60 units and size 30 wastes none
C8_Witness ==
    /\ Optimized
    /\ quantityNeeded = Num(60)
    /\ Len(availableNDCs.items) = 3
    /\ availableNDCs.items[1].size = Num(50)
    /\ availableNDCs.items[2].size = Num(100)
    /\ availableNDCs.items[3].size = Num(30)
    /\ ndcResult.candidates[1].packageSize = 30
    /\ ndcResult.candidates[2].packageSize = 50
    /\ ndcResult.candidates[3].packageSize = 100

HasExactFit ==
    /\ quantityNeeded.kind = "finite"
    /\ \E i \in EligibleIndices : availableNDCs.items[i].size.v = quantityNeeded.v

\* C9: when the catalog holds a valid active package whose size equals
\* quantityNeeded, the call succeeds, the selected package has efficiency 0 and the
\* waste is 0.
C9_ExactFit ==
    pc = "optimizeNDCSelection" /\ HasExactFit =>
        /\ ndcResult.success
        /\ Len(ndcResult.optimalCombination) = 1
        /\ RatEq(ndcResult.optimalCombination[1].efficiency, Rat(0, 1))
        /\ ndcResult.waste = 0

\* the exact fit stands behind a package that wastes 40 units
C9_Witness ==
    /\ pc = "optimizeNDCSelection"
    /\ quantityNeeded = Num(60)
    /\ Len(availableNDCs.items) = 2
    /\ availableNDCs.items[1].size = Num(100)
    /\ availableNDCs.items[2].package_ndc = "12345-101-05"
    /\ ndcResult.success
    /\ ndcResult.optimalCombination[1].packageSize = 60
    /\ ndcResult.waste = 0

TestCatalog ==
    /\ availableNDCs.isArray
    /\ Len(availableNDCs.items) = 3
    /\ availableNDCs.items[1].size = Num(100)
    /\ availableNDCs.items[2].size = Num(30)
    /\ availableNDCs.items[3].size = Num(500)
    /\ \A i \in 1..3 : availableNDCs.items[i].status = "active"

\* C10: with the active sizes 100, 30, 500 the size-100 package is selected with
\* packagesRequired = 1 for 60 and for 45 units; for 45 the waste is 55 and
\* totalPackages is 1.
C10_TestScenarios ==
    pc = "optimizeNDCSelection" /\ TestCatalog /\ quantityNeeded \in {Num(60), Num(45)} =>
        /\ ndcResult.success
        /\ ndcResult.optimalCombination[1].packageSize = 100
        /\ ndcResult.optimalCombination[1].packagesRequired = 1
        /\ quantityNeeded = Num(45) => ndcResult.waste = 55 /\ ndcResult.totalPackages = 1


ValidQuantity == quantityNeeded.kind = "finite" /\ quantityNeeded.v > 0
NoCatalog == ~availableNDCs.isArray \/ Len(availableNDCs.items) = 0

\* C11: with a valid quantity, an empty or missing catalog and a non-empty catalog
\* without an eligible entry both fail, each with its own error message.
C11_DistinctCatalogErrors ==
    pc = "optimizeNDCSelection" /\ ValidQuantity =>
        /\ NoCatalog =>
              /\ ~ndcResult.success
              /\ ndcResult.error = "No NDC data available for optimization"
        /\ ~NoCatalog /\ EligibleIndices = {} =>
              /\ ~ndcResult.success
              /\ ndcResult.error = "No valid active NDCs available for optimization"
              /\ ndcResult.error # "No NDC data available for optimization"

\* a catalog of one inactive package and one package of size 0
C11_Witness ==
    /\ pc = "optimizeNDCSelection"
    /\ quantityNeeded = Num(60)
    /\ Len(availableNDCs.items) = 2
    /\ availableNDCs.items[1].status = "inactive"
    /\ availableNDCs.items[2].size = Num(0)
    /\ ~ndcResult.success
    /\ ndcResult.error = "No valid active NDCs available for optimization"

OnlyInactive ==
    /\ availableNDCs.isArray
    /\ Len(availableNDCs.items) > 0
    /\ \A i \in 1..Len(availableNDCs.items) : availableNDCs.items[i].status = "inactive"

\* C12: with a positive quantity, an empty catalog and a catalog of inactive
\* entries only give success = false and an error that contains
\* "No active NDCs available".
C12_NoActiveMessage ==
    pc = "optimizeNDCSelection" /\ ValidQuantity
        /\ ((availableNDCs.isArray /\ Len(availableNDCs.items) = 0) \/ OnlyInactive) =>
            /\ ~ndcResult.success
            /\ Includes(ndcResult.error, "No active NDCs available")

\* C13: a quantityNeeded that is zero, negative or not finite fails at once,
\* whatever the catalog: no candidates, no combination, totalPackages = 0, waste = 0.
C13_InvalidQuantityFails ==
    pc = "optimizeNDCSelection" /\ ~ValidQuantity =>
        /\ ~ndcResult.success
        /\ ndcResult.candidates = <<>>
        /\ ndcResult.optimalCombination = <<>>
        /\ ndcResult.totalPackages = 0
        /\ ndcResult.waste = 0

\* a negative quantity with a catalog that holds an eligible package
C13_Witness ==
    /\ pc = "optimizeNDCSelection"
    /\ quantityNeeded = Num(-30)
    /\ EligibleIndices # {}
    /\ ~ndcResult.success
    /\ ndcResult.candidates = <<>>

\* C14: on success totalQuantity = q, totalPackages is the packagesRequired of the one
\* selected candidate and waste = max(0, packagesRequired * packageSize - q) of it.
C14_Totals ==
    Optimized =>
        /\ ndcResult.totalQuantity = quantityNeeded.v
        /\ Len(ndcResult.optimalCombination) = 1
        /\ ndcResult.totalPackages = ndcResult.optimalCombination[1].packagesRequired
        /\ LET c == ndcResult.optimalCombination[1]
               over == c.packagesRequired * c.packageSize - quantityNeeded.v
           IN  ndcResult.waste = IF over > 0 THEN over ELSE 0

\* 250 units from packages of 100: three packages, 50 units over
C14_Witness ==
    /\ Optimized
    /\ quantityNeeded = Num(250)
    /\ ndcResult.optimalCombination[1].packageSize = 100
    /\ ndcResult.totalPackages = 3
    /\ ndcResult.waste = 50


\* C15: a zero or negative daysSupply is not rejected: for a parseable SIG the call
\* succeeds with totalQuantity <= 0, and with exactly 0 when daysSupply = 0.
C15_NonPositiveDaysAccepted ==
    pc = "calculateDispenseQuantity" /\ sig.type = "string" /\ daysSupply <= 0
        /\ Len(parseSIG(sig.text).dosageInstructions) > 0 =>
            /\ ~quantityResult.threw
            /\ quantityResult.success
            /\ quantityResult.totalQuantity <= 0
            /\ daysSupply = 0 => quantityResult.totalQuantity = 0

C15_Witness ==
    /\ Returned
    /\ sig.text = "Take 1 tablet daily"
    /\ daysSupply = -5
    /\ quantityResult.success
    /\ quantityResult.totalQuantity = -5

----------------------------------------------------------------------------
(* Properties of parseSIG *)

Parsed == pc = "parseSIG"
Instructions == parsedSIG.dosageInstructions

\* the sum of amount * frequency over the instructions from index k on
RECURSIVE DoseFrom(_, _)
DoseFrom(instructions, k) ==
    IF k > Len(instructions) THEN Rat(0, 1)
    ELSE RatAdd(Rat(instructions[k].amount.num * instructions[k].frequency,
                    instructions[k].amount.den),
                DoseFrom(instructions, k + 1))

\* C16: a ParsedSIG without dosage instructions has totalDailyDose 0; one with
\* instructions has totalDailyDose = the sum of amount * frequency over them.
C16_TotalDailyDose ==
    Parsed =>
        /\ Len(Instructions) = 0 => parsedSIG.totalDailyDose.num = 0
        /\ Len(Instructions) > 0 =>
              RatEq(parsedSIG.totalDailyDose, DoseFrom(Instructions, 1))

\* two matches of the take-pattern, both at frequency 2
C16_Witness ==
    /\ Parsed
    /\ sig.text = "Take 1 tablet and take 2 tablets twice daily"
    /\ Len(Instructions) = 2
    /\ RatEq(parsedSIG.totalDailyDose, Rat(6, 1))

\* C18: every instruction parseSIG emits, on the pattern path and on the fallback
\* path, has amount > 0.
C18_PositiveAmount ==
    Parsed => \A k \in 1..Len(Instructions) : Instructions[k].amount.num > 0

\* C19: every instruction parseSIG emits has a frequency >= 1, whichever frequency
\* rule produced it.
C19_PositiveFrequency ==
    Parsed => \A k \in 1..Len(Instructions) : Instructions[k].frequency >= 1

\* the named frequency rules in the order of the cascade, and their results
namedRules ==
    <<{"three times daily", "tid", "t.i.d."}, {"four times daily", "qid", "q.i.d."},
      {"twice daily", "two times daily", "bid", "b.i.d."},
      {"once daily", "once a day", "qday", "q.d."}>>
namedTimes == <<3, 4, 2, 1>>
NamedHits(t) == {k \in 1..4 : \E p \in namedRules[k] : Includes(t, p)}
\* "every N hours" applies with N > 0 only
HoursApplies(t) == hoursMatch(t) # "" /\ parseInt(hoursMatch(t)) > 0
CascadeFrequency(t) ==
    IF NamedHits(t) # {}
    THEN namedTimes[CHOOSE k \in NamedHits(t) : \A j \in NamedHits(t) : k <= j]
    ELSE IF HoursApplies(t)
    THEN CHOOSE n \in 1..24 : n * parseInt(hoursMatch(t)) >= 24
                              /\ (n - 1) * parseInt(hoursMatch(t)) < 24
    ELSE IF timesDailyMatch(t) # "" THEN parseInt(timesDailyMatch(t))
    ELSE 1

\* C20: the frequency of every instruction is the result of the first rule that
\* applies, in the order tid (3), qid (4), bid (2), once daily (1), "every N hours",
\* "N times daily", default 1.
C20_FrequencyCascade ==
    Parsed =>
        \A k \in 1..Len(Instructions) :
            Instructions[k].frequency = CascadeFrequency(trim(toLowerCase(sig.text)))

\* "every 6 hours" stands before "2 times daily" in the cascade
C20_Witness ==
    /\ Parsed
    /\ sig.text = "Take 2 tablets every 6 hours or 2 times daily"
    /\ Len(Instructions) = 1
    /\ Instructions[1].frequency = 4


----------------------------------------------------------------------------
(* Two calls for the same catalog *)

Raised == pc = "optimizeNDCSelection" /\ previous.called /\ ndcResult.success

\* the candidates of the present call for the package the earlier call selected
SamePackage ==
    {k \in 1..Len(ndcResult.candidates) :
        /\ ndcResult.candidates[k].ndc = previous.optimalCombination[1].ndc
        /\ ndcResult.candidates[k].packageSize = previous.optimalCombination[1].packageSize}

\* C17: for quantities 0 < q1 <= q2 and the package selected for q1, the packages
\* required for q2 are not fewer than those for q1, so with that package kept the
\* raised quantity never lowers totalPackages.
C17_PackagesMonotone ==
    Raised =>
        /\ previous.quantityNeeded <= quantityNeeded.v
        /\ SamePackage # {}
        /\ \A k \in SamePackage :
              /\ ndcResult.candidates[k].packagesRequired >= previous.totalPackages
              /\ ndcResult.candidates[k].packagesRequired
                    >= previous.optimalCombination[1].packagesRequired

\* size 30 was selected for 60 units (2 packages); for 250 units size 50 is selected
\* and size 30 needs 9 packages
C17_Witness ==
    /\ Raised
    /\ previous.quantityNeeded = 60
    /\ previous.optimalCombination[1].packageSize = 30
    /\ previous.totalPackages = 2
    /\ quantityNeeded = Num(250)
    /\ ndcResult.optimalCombination[1].packageSize = 50
    /\ \E k \in SamePackage : ndcResult.candidates[k].packagesRequired = 9

----------------------------------------------------------------------------
(* Frequency, timing and the two parsing paths *)

Normalized == trim(toLowerCase(sig.text))
\* no named frequency phrase occurs and the text holds "every N hours"
EveryHours == Parsed /\ NamedHits(Normalized) = {} /\ hoursMatch(Normalized) # ""
HoursN == parseInt(hoursMatch(Normalized))

\* C21: with no named phrase and "every N hours" in the text, the frequency is
\* ceil(24 / N) for N > 0 (1 for N >= 24); for N = 0 it is that of the
\* "N times daily" rule when that matches, and the default 1 otherwise.
C21_EveryHours ==
    EveryHours =>
        \A k \in 1..Len(Instructions) :
            LET f == Instructions[k].frequency IN
            /\ HoursN > 0 => f * HoursN >= 24 /\ (f - 1) * HoursN < 24
            /\ HoursN >= 24 => f = 1
            /\ HoursN = 0 /\ timesDailyMatch(Normalized) # ""
                  => f = parseInt(timesDailyMatch(Normalized))
            /\ HoursN = 0 /\ timesDailyMatch(Normalized) = "" => f = 1

\* 24 / 7 is rounded up to 4
C21_Witness ==
    /\ EveryHours
    /\ sig.text = "Take 1 tablet every 7 hours"
    /\ Len(Instructions) = 1
    /\ Instructions[1].frequency = 4

\* C22: when the text holds a phrase of the timing vocabulary, every instruction
\* carries the first such phrase in list order, whichever frequency rule applied.
C22_TimingCarried ==
    Parsed /\ sig.type = "string" /\ extractTiming(Normalized) # Undefined =>
        \A k \in 1..Len(Instructions) :
            Instructions[k].timing = extractTiming(Normalized)

TakeMatches == matchAllTake(Normalized, 1)
RouteMatches == matchAllRoute(Normalized, 1)
PrimaryMatched == TakeMatches # <<>> \/ RouteMatches # <<>>
\* the amount the fallback finds: the first numeral, else the first number word
FallbackAmount ==
    IF numberMatch(Normalized) # "" THEN parseFloat(numberMatch(Normalized))
    ELSE Rat(writtenNumberMatch(Normalized), 1)

\* C23: the fallback acts only when the patterns gave no instruction, and then
\* emits at most one instruction, of unit "tablet", whose amount is the first
\* numeral of the text, or else the value of its first number word; a first
\* numeral of 0, or neither numeral nor word, gives no instruction.
C23_Fallback ==
    Parsed /\ sig.type = "string" =>
        /\ PrimaryMatched =>
              Len(Instructions) = Len(TakeMatches)
              \/ (TakeMatches = <<>> /\ Len(Instructions) = Len(RouteMatches))
        /\ ~PrimaryMatched =>
              /\ Len(Instructions) <= 1
              /\ Len(Instructions) = 1 <=> FallbackAmount.num > 0
              /\ Len(Instructions) = 1 =>
                    /\ Instructions[1].unit = "tablet"
                    /\ RatEq(Instructions[1].amount, FallbackAmount)
              /\ numberMatch(Normalized) # "" /\ parseFloat(numberMatch(Normalized)).num = 0
                    => Instructions = <<>>
              /\ numberMatch(Normalized) = "" /\ writtenNumberMatch(Normalized) = 0
                    => Instructions = <<>>

\* the numeral 3 is taken, not the word "two"
C23_Witness ==
    /\ Parsed
    /\ sig.text = "Two tablets 3 times daily"
    /\ ~PrimaryMatched
    /\ Len(Instructions) = 1
    /\ Instructions[1].unit = "tablet"
    /\ RatEq(Instructions[1].amount, Rat(3, 1))

UsedMatches == IF TakeMatches # <<>> THEN TakeMatches ELSE RouteMatches

\* C24: only the first dosage pattern that matches is used: each of its matches
\* is one instruction, in text order and without deduplication, all with the
\* same frequency; matches of the second pattern are ignored when the first matched.
C24_FirstPatternOnly ==
    Parsed /\ sig.type = "string" /\ PrimaryMatched =>
        /\ Len(Instructions) = Len(UsedMatches)
        /\ \A k \in 1..Len(Instructions) :
              /\ RatEq(Instructions[k].amount, parseFloat(UsedMatches[k].amount))
              /\ Instructions[k].unit = removePlural(UsedMatches[k].unit)
              /\ Instructions[k].frequency = Instructions[1].frequency

\* both patterns match "take 1 tablet by mouth ..."; one instruction is emitted
C24_Witness ==
    /\ Parsed
    /\ sig.type = "string"
    /\ TakeMatches # <<>>
    /\ RouteMatches # <<>>
    /\ Len(Instructions) = 1

RECURSIVE MaxFrequencyFrom(_, _)
MaxFrequencyFrom(instructions, k) ==
    IF k = Len(instructions) THEN instructions[k].frequency
    ELSE Max(instructions[k].frequency, MaxFrequencyFrom(instructions, k + 1))

\* C25: when parseSIG emits an instruction, dailyFrequency is the maximum
\* frequency over the emitted instructions.
C25_DailyFrequencyIsMax ==
    Parsed /\ Len(Instructions) > 0 =>
        parsedSIG.dailyFrequency = MaxFrequencyFrom(Instructions, 1)

----------------------------------------------------------------------------
(* Small PRN totals and the selected package *)

\* raw = totalDailyDose * daysSupply of the returned result
Raw == RatMul(quantityResult.sig.totalDailyDose, Rat(daysSupply, 1))
PRNReturned == Returned /\ quantityResult.success /\ quantityResult.sig.prn

\* C26 as stated: some PRN SIG and positive daysSupply with raw > 0 give a
\* totalQuantity <= 0 (looked for, once a PRN call has returned, among all the
\* texts and daysSupply values a call can be made with).
C26_SmallRawNonPositive ==
    PRNReturned =>
    \E t \in SigTexts, d \in DaysSupplies :
        /\ d > 0
        /\ parseSIG(t).prn
        /\ parseSIG(t).totalDailyDose.num > 0
        /\ calculateDispenseQuantity(Str(t), d).success
        /\ calculateDispenseQuantity(Str(t), d).totalQuantity <= 0

\* C26 amended: for a PRN SIG with raw > 0 the discount followed by rounding up
\* gives totalQuantity >= 1, not below 0.7 * raw; totalQuantity <= 0 arises only
\* with raw <= 0.
C26_PositiveRawStaysPositive ==
    PRNReturned =>
        /\ Raw.num > 0 =>
              /\ quantityResult.totalQuantity >= 1
              /\ ~RatLess(Rat(quantityResult.totalQuantity, 1), RatMul(Raw, Rat(7, 10)))
        /\ quantityResult.totalQuantity <= 0 => Raw.num <= 0

\* half a tablet for one day: raw 0.5, discounted to 0.35, rounded up to 1
C26_Witness ==
    /\ PRNReturned
    /\ sig.text = "Take 0.5 tablet as needed"
    /\ daysSupply = 1
    /\ RatEq(Raw, Rat(1, 2))
    /\ quantityResult.totalQuantity = 1

Selected == ndcResult.optimalCombination[1]

\* C27: on success the selected package neither under-dispenses nor over-dispenses
\* by a whole package: packagesRequired * packageSize >= quantityNeeded,
\* packagesRequired >= 1 and waste < packageSize.
C27_NoUnderNoWholeOver ==
    Optimized =>
        /\ Len(ndcResult.optimalCombination) = 1
        /\ Selected.packagesRequired * Selected.packageSize >= quantityNeeded.v
        /\ Selected.packagesRequired >= 1
        /\ ndcResult.totalPackages * Selected.packageSize >= quantityNeeded.v
        /\ ndcResult.waste < Selected.packageSize
        /\ ndcResult.waste >= 0

\* 45 units from one package of 100: 55 units over, less than a package
C27_Witness ==
    /\ Optimized
    /\ quantityNeeded = Num(45)
    /\ Selected.packageSize = 100
    /\ Selected.packagesRequired = 1
    /\ ndcResult.waste = 55

----------------------------------------------------------------------------
(* The toast store (src/unnamed/part_002).  A toast is kept with its id,   *)
(* type, duration and persistent flag; title, message and actions play no  *)
(* part in the store's logic.  generateId is taken to give a fresh id.     *)

Unset == -1          \* an option the caller did not pass (duration)

NoOptions == [persistent |-> "unset", duration |-> Unset]

\* the toast built from the method's defaults and the caller's options
newToast(S, type, duration, persistent, o) ==
    [id |-> S.created + 1, type |-> type,
     duration |-> IF o.duration = Unset THEN duration ELSE o.duration,
     persistent |-> IF o.persistent = "unset" THEN persistent ELSE o.persistent]

\* add: the timer is set only for a toast that is not persistent and has a
\* duration > 0
storeAdd(S, type, o) ==
    LET t == newToast(S, type, 5000, "unset", o) IN
    [toasts |-> Append(S.toasts, t),
     timers |-> IF t.persistent # "true" /\ t.duration > 0
                THEN S.timers \cup {t.id} ELSE S.timers,
     created |-> t.id]

\* success, warning and info: setTimeout is called whatever the options are
storeSuccess(S, o) ==
    LET t == newToast(S, "success", 4000, "unset", o) IN
    [toasts |-> Append(S.toasts, t), timers |-> S.timers \cup {t.id}, created |-> t.id]

\* error: persistent unless the options say otherwise; no timer in either case
storeError(S, o) ==
    LET t == newToast(S, "error", 6000, "true", o) IN
    [toasts |-> Append(S.toasts, t), timers |-> S.timers, created |-> t.id]

storeWarning(S, o) ==
    LET t == newToast(S, "warning", 5000, "unset", o) IN
    [toasts |-> Append(S.toasts, t), timers |-> S.timers \cup {t.id}, created |-> t.id]

storeInfo(S, o) ==
    LET t == newToast(S, "info", 3000, "unset", o) IN
    [toasts |-> Append(S.toasts, t), timers |-> S.timers \cup {t.id}, created |-> t.id]

\* remove(id): store.toasts.filter(toast => toast.id !== id)
storeRemove(S, id) ==
    [S EXCEPT !.toasts = SelectSeq(S.toasts, LAMBDA t : t.id # id)]

\* clear: set({ toasts: [] })
storeClear(S) == [S EXCEPT !.toasts = <<>>]

ToastOptions ==
    {[persistent |-> p, duration |-> d] :
        p \in {"unset", "true", "false"}, d \in {Unset, 0, 2000}}

ToastIds == 1..MaxToasts

ToastAdd ==
    /\ toastStore.created < MaxToasts
    /\ \E type \in {"info", "error"}, o \in ToastOptions :
          toastStore' = storeAdd(toastStore, type, o)
    /\ UNCHANGED <<serviceVars, page, runs, post>>

ToastSuccess ==
    /\ toastStore.created < MaxToasts
    /\ \E o \in ToastOptions : toastStore' = storeSuccess(toastStore, o)
    /\ UNCHANGED <<serviceVars, page, runs, post>>

ToastError ==
    /\ toastStore.created < MaxToasts
    /\ \E o \in ToastOptions : toastStore' = storeError(toastStore, o)
    /\ UNCHANGED <<serviceVars, page, runs, post>>

ToastWarning ==
    /\ toastStore.created < MaxToasts
    /\ \E o \in ToastOptions : toastStore' = storeWarning(toastStore, o)
    /\ UNCHANGED <<serviceVars, page, runs, post>>

ToastInfo ==
    /\ toastStore.created < MaxToasts
    /\ \E o \in ToastOptions : toastStore' = storeInfo(toastStore, o)
    /\ UNCHANGED <<serviceVars, page, runs, post>>

\* Toast.svelte removeToast: the user dismisses a toast that is shown
ToastRemove(id) ==
    /\ \E k \in 1..Len(toastStore.toasts) : toastStore.toasts[k].id = id
    /\ toastStore' = storeRemove(toastStore, id)
    /\ UNCHANGED <<serviceVars, page, runs, post>>

ToastClear ==
    /\ toastStore.toasts # <<>>
    /\ toastStore' = storeClear(toastStore)
    /\ UNCHANGED <<serviceVars, page, runs, post>>

\* the callback of setTimeout: remove(id); the timer is spent
TimerFires(id) ==
    /\ id \in toastStore.timers
    /\ toastStore' = [storeRemove(toastStore, id) EXCEPT !.timers = @ \ {id}]
    /\ UNCHANGED <<serviceVars, page, runs, post>>

NextToast ==
    \/ ToastAdd
    \/ ToastSuccess
    \/ ToastError
    \/ ToastWarning
    \/ ToastInfo
    \/ \E id \in ToastIds : ToastRemove(id)
    \/ ToastClear
    \/ \E id \in ToastIds : TimerFires(id)

\* a timer that was set fires: the event loop runs every due callback
SpecToast ==
    Init /\ [][NextToast]_vars /\ \A id \in ToastIds : WF_vars(TimerFires(id))

InStore(id) == \E k \in 1..Len(toastStore.toasts) : toastStore.toasts[k].id = id
\* the toast of this id is in the store, not persistent, with a positive duration
AutoDismissed(id) ==
    \E k \in 1..Len(toastStore.toasts) :
        /\ toastStore.toasts[k].id = id
        /\ toastStore.toasts[k].persistent # "true"
        /\ toastStore.toasts[k].duration > 0

----------------------------------------------------------------------------
(* The page (src/src/routes/+page.svelte).  normalizeDrugToRxCUI and the   *)
(* NDC searches are network calls: handleSubmit waits for each, and what a *)
(* call gives back is the network's choice.  A result variable of the page *)
(* is kept as the run that assigned it and whether it was a success.       *)

\* the notifications errorHandling raises, as calls on the toast store
progressToast(S) == storeInfo(S, [persistent |-> "false", duration |-> 2000])
errorToast(S) == storeError(S, [persistent |-> "true", duration |-> Unset])
warningToast(S, duration) == storeWarning(S, [persistent |-> "unset", duration |-> duration])
successToast(S) == storeSuccess(S, [persistent |-> "unset", duration |-> 5000])
inactiveToast(S) == storeWarning(S, [persistent |-> "true", duration |-> Unset])

AllDigits(t) == \A k \in 1..Len(t) : IsDigit(CharAt(t, k))

\* Number(text) of a text of digits; any other text of the form inputs is NaN
IsNumberText(t) == t # "" /\ AllDigits(t)

\* validateForm: the fields that get an error message
validateForm(pg) ==
    LET d == trim(pg.daysSupply) IN
    (IF Len(trim(pg.drugInput)) < 2 THEN {"drugInput"} ELSE {})
    \cup (IF Len(trim(pg.sig)) < 5 THEN {"sig"} ELSE {})
    \cup (IF d = "" \/ ~IsNumberText(d) \/ parseInt(d) <= 0 \/ parseInt(d) > 365
          THEN {"daysSupply"} ELSE {})

\* ndc.replace(/[^0-9-]/g, '')
RECURSIVE keepDigitsAndHyphens(_)
keepDigitsAndHyphens(t) ==
    IF t = "" THEN ""
    ELSE (IF IsDigit(CharAt(t, 1)) \/ CharAt(t, 1) = "-" THEN SubSeq(t, 1, 1) ELSE "")
         \o keepDigitsAndHyphens(SubSeq(t, 2, Len(t)))

\* /^\d{5}-\d{4}-\d{2}$|^\d{11}$|^\d{5}-\d{3}-\d{2}$/
validateNDCFormat(ndc) ==
    LET t == keepDigitsAndHyphens(ndc)
        hyphenated(m) ==
            /\ Len(t) = 9 + m
            /\ AllDigits(SubSeq(t, 1, 5)) /\ CharAt(t, 6) = "-"
            /\ AllDigits(SubSeq(t, 7, 6 + m)) /\ CharAt(t, 7 + m) = "-"
            /\ AllDigits(SubSeq(t, 8 + m, 9 + m))
    IN  hyphenated(4) \/ (Len(t) = 11 /\ AllDigits(t)) \/ hyphenated(3)

\* the catalog of an NDC search that found packages
PageCatalogs ==
    {<<CHOOSE e \in Packages : e.package_ndc = "12345-101-02">>,
     <<CHOOSE e \in Packages : e.package_ndc = "12345-101-04">>}

\* what normalizeDrugToRxCUI can give back: a result with an rxcui, a failure
\* whose error has status 429, or a rejected promise
NormOutcomes == {"ok", "rateLimited", "throws"}

\* what an NDC search can give back: packages, success with no package, or a
\* rejected promise
NDCOutcomes ==
    {[kind |-> "ok", ndcs |-> c] : c \in PageCatalogs}
    \cup {[kind |-> k, ndcs |-> <<>>] : k \in {"empty", "throws"}}

Step(name, ok) == [name |-> name, ok |-> ok]

\* an invocation that has returned: its locals are gone, the steps it made are kept
Done(steps) == [UnusedRun EXCEPT !.pc = "done", !.steps = steps]

\* the catch block and the finally block of handleSubmit
caught(S, pg) ==
    [toastStore |-> errorToast(S),
     page |-> [pg EXCEPT !.submitMessageType = "error", !.showApiResults = TRUE,
                         !.isSubmitting = FALSE]]

\* quantityData and optimizedData are consts of the callers: each is bound once
\* to the value of the call that made it, and the next call receives that value

\* steps 3 and 4 of handleSubmit with every early return skipped
pageComputeUnchecked(S, pg, r, run, ndcs) ==
    CHOOSE outcome \in
        {CHOOSE finished \in
            {[toastStore |-> successToast(progressToast(progressToast(S))),
              page |-> [pg EXCEPT
                          !.quantityResult = [by |-> r, success |-> quantityData.success],
                          !.optimizedNDCResult =
                              [by |-> r, success |-> optimizedData.success],
                          !.submitMessageType = "success",
                          !.showApiResults = TRUE, !.isSubmitting = FALSE],
              steps |-> <<Step("calculate", quantityData.success),
                          Step("optimize", optimizedData.success)>>] :
                optimizedData \in
                    {optimizeNDCSelection(Num(quantityData.totalQuantity),
                                          [isArray |-> TRUE, items |-> ndcs])}} : TRUE :
            quantityData \in {calculateDispenseQuantity(Str(run.sig), run.daysSupply)}} :
        TRUE

\* step 4 of handleSubmit (lines 237-284), after a successful step 3
pageOptimize(S4, pg3, r, quantityData, ndcs) ==
    CHOOSE finished \in
        {LET pg4 == [pg3 EXCEPT !.optimizedNDCResult =
                                    [by |-> r, success |-> optimizedData.success]]
             inactive == \E k \in 1..Len(optimizedData.candidates) :
                             optimizedData.candidates[k].status = "inactive"
         IN  IF ~optimizedData.success
             THEN [toastStore |-> errorToast(S4),
                   page |-> [pg4 EXCEPT !.submitMessageType = "error",
                                        !.showApiResults = TRUE, !.isSubmitting = FALSE],
                   steps |-> <<Step("calculate", TRUE), Step("optimize", FALSE)>>]
             ELSE [toastStore |-> IF inactive THEN inactiveToast(successToast(S4))
                                  ELSE successToast(S4),
                   page |-> [pg4 EXCEPT !.submitMessageType = "success",
                                        !.showApiResults = TRUE, !.isSubmitting = FALSE],
                   steps |-> <<Step("calculate", TRUE), Step("optimize", TRUE)>>] :
            optimizedData \in {optimizeNDCSelection(Num(quantityData.totalQuantity),
                                                    [isArray |-> TRUE, items |-> ndcs])}} :
        TRUE

\* steps 3 and 4 of handleSubmit (lines 205-284), which run without waiting
pageCompute(S, pg, r, run, ndcs) ==
    CHOOSE outcome \in
        {LET S3 == progressToast(S)
             pg3 == [pg EXCEPT !.quantityResult =
                                  [by |-> r, success |-> quantityData.success]]
         IN  IF ~quantityData.success
             THEN [toastStore |-> errorToast(S3),
                   page |-> [pg3 EXCEPT !.submitMessageType = "error",
                                        !.showApiResults = TRUE, !.isSubmitting = FALSE],
                   steps |-> <<Step("calculate", FALSE)>>]
             ELSE pageOptimize(progressToast(S3), pg3, r, quantityData, ndcs) :
            quantityData \in {calculateDispenseQuantity(Str(run.sig), run.daysSupply)}} :
        TRUE

\* what a user types into the three fields
FormInputs ==
    {[drugInput |-> "aspirin", sig |-> "Take 1 tablet twice daily", daysSupply |-> "30"],
     [drugInput |-> "aspirin ", sig |-> "Invalid SIG format", daysSupply |-> "30"],
     [drugInput |-> "00093001505", sig |-> " Take 1 tablet twice daily", daysSupply |-> "30 "]}

\* the handler and the page run in different places and share no state: a
\* behaviour follows the page or one request
PageSession == post.pc = "idle"

\* bind:value and on:input of the three fields, which are disabled while
\* isSubmitting: the user fills in the empty form
EditForm ==
    /\ PageSession
    /\ ~page.isSubmitting
    /\ page.drugInput = "" /\ page.sig = "" /\ page.daysSupply = ""
    /\ \E f \in FormInputs :
          page' = [page EXCEPT !.drugInput = f.drugInput, !.sig = f.sig,
                               !.daysSupply = f.daysSupply, !.errors = {}]
    /\ UNCHANGED <<serviceVars, toastStore, runs, post>>

\* handleSubmit up to its first await (lines 74-132), as invocation r
handleSubmit(r) ==
    LET cleared == [page EXCEPT !.submitMessageType = "", !.showApiResults = FALSE,
                                !.normalizationResult = NoResult, !.ndcResult = NoResult,
                                !.quantityResult = NoResult,
                                !.optimizedNDCResult = NoResult,
                                !.errors = validateForm(page)]
    IN  IF cleared.errors # {}
        THEN /\ toastStore' = errorToast(toastStore)
             /\ page' = cleared
             /\ runs' = [runs EXCEPT ![r] = Done(<<>>)]
        ELSE /\ toastStore' = progressToast(toastStore)
             /\ page' = [cleared EXCEPT !.isSubmitting = TRUE, !.submitMessageType = "info"]
             /\ runs' = [runs EXCEPT ![r] =
                            [pc |-> "normalize", drugInput |-> trim(page.drugInput),
                             sig |-> trim(page.sig),
                             daysSupply |-> parseInt(trim(page.daysSupply)),
                             isLikelyNDC |-> validateNDCFormat(trim(page.drugInput)),
                             steps |-> <<>>]]

\* the next invocation of handleSubmit, if the session has one left
NextRun(r) == runs[r].pc = "unused" /\ \A q \in 1..(r - 1) : runs[q].pc # "unused"

\* the form's submit event; the submit button is disabled while isSubmitting
SubmitForm ==
    /\ PageSession
    /\ ~page.isSubmitting
    /\ \E r \in 1..MaxRuns : NextRun(r) /\ handleSubmit(r)
    /\ UNCHANGED <<serviceVars, post>>

\* handleKeydown on the window: Ctrl/Cmd + Enter calls handleSubmit
KeydownSubmit ==
    /\ PageSession
    /\ \E r \in 1..MaxRuns : NextRun(r) /\ handleSubmit(r)
    /\ UNCHANGED <<serviceVars, post>>

resetForm ==
    page' = [page EXCEPT !.drugInput = "", !.sig = "", !.daysSupply = "", !.errors = {},
                         !.submitMessageType = "", !.showApiResults = FALSE,
                         !.normalizationResult = NoResult, !.ndcResult = NoResult,
                         !.quantityResult = NoResult, !.optimizedNDCResult = NoResult]

\* the Clear button, disabled while isSubmitting
ClickClear ==
    /\ PageSession
    /\ ~page.isSubmitting
    /\ page # InitialPage
    /\ resetForm
    /\ UNCHANGED <<serviceVars, toastStore, runs, post>>

\* handleKeydown on the window: Escape calls resetForm
KeydownEscape ==
    /\ PageSession
    /\ page # [InitialPage EXCEPT !.isSubmitting = page.isSubmitting]
    /\ resetForm
    /\ UNCHANGED <<serviceVars, toastStore, runs, post>>

\* normalizeDrugToRxCUI settles and invocation r goes on (lines 132-166)
NormalizeReturns(r) ==
    /\ runs[r].pc = "normalize"
    /\ \E outcome \in NormOutcomes :
        LET steps == Append(runs[r].steps, Step("normalize", outcome = "ok"))
            assigned == [page EXCEPT !.normalizationResult =
                                         [by |-> r, success |-> outcome = "ok"]]
            failed == [assigned EXCEPT !.submitMessageType = "error",
                                       !.showApiResults = FALSE, !.isSubmitting = FALSE]
        IN  /\ runs' = [runs EXCEPT ![r] = IF outcome = "ok"
                                           THEN [@ EXCEPT !.steps = steps, !.pc = "fetch"]
                                           ELSE Done(steps)]
            /\ \/ /\ outcome = "ok"
                  /\ toastStore' = progressToast(toastStore)
                  /\ page' = [assigned EXCEPT !.submitMessageType = "info"]
               \/ /\ outcome = "rateLimited"
                  /\ toastStore' = warningToast(toastStore, 8000)
                  /\ page' = failed
               \/ /\ outcome = "throws"
                  /\ toastStore' = caught(toastStore, page).toastStore
                  /\ page' = caught(toastStore, page).page
    /\ UNCHANGED <<serviceVars, post>>

\* an NDC search settles and invocation r goes on (lines 168-298): a search by
\* RxCUI that finds nothing is followed by a search by drug name
NDCReturns(r) ==
    /\ runs[r].pc \in {"fetch", "fetchByName"}
    /\ \E outcome \in NDCOutcomes :
        LET found == outcome.kind = "ok"
            assigned == [page EXCEPT !.ndcResult = [by |-> r, success |-> found]]
        IN  IF outcome.kind = "throws"
            THEN /\ toastStore' = caught(toastStore, page).toastStore
                 /\ page' = caught(toastStore, page).page
                 /\ runs' = [runs EXCEPT ![r] =
                                Done(Append(runs[r].steps, Step("fetch", FALSE)))]
            ELSE IF ~found /\ runs[r].pc = "fetch" /\ ~runs[r].isLikelyNDC
            THEN /\ runs' = [runs EXCEPT ![r].pc = "fetchByName",
                                         ![r].steps = Append(@, Step("fetch", FALSE))]
                 /\ UNCHANGED <<toastStore, page>>
            ELSE IF ~found
            THEN /\ toastStore' = errorToast(toastStore)
                 /\ page' = [assigned EXCEPT !.submitMessageType = "error",
                                             !.showApiResults = TRUE,
                                             !.isSubmitting = FALSE]
                 /\ runs' = [runs EXCEPT ![r] =
                                Done(Append(runs[r].steps, Step("fetch", FALSE)))]
            ELSE \E computed \in {pageCompute(toastStore, assigned, r, runs[r],
                                                outcome.ndcs)} :
                 /\ toastStore' = computed.toastStore
                 /\ page' = computed.page
                 /\ runs' = [runs EXCEPT ![r] =
                                Done(Append(runs[r].steps, Step("fetch", TRUE))
                                     \o computed.steps)]
    /\ UNCHANGED <<serviceVars, post>>

----------------------------------------------------------------------------
(* The performance-test POST handler (src/unnamed/part_005) *)

\* the fields of a request body; "" and 0 stand for a field that is missing
PostBodies ==
    {[drugInput |-> d, sig |-> t, daysSupply |-> n] :
        d \in {"", "aspirin"},
        t \in {"", "Take 1 tablet twice daily", "Invalid SIG format"},
        n \in {0, 30}}

\* step 4 of the handler (lines 55-72), after a successful step 3
postOptimize(quantityData, ndcs) ==
    CHOOSE answered \in
        {IF ~optimizedData.success
         THEN [steps |-> <<Step("calculate", TRUE), Step("optimize", FALSE)>>,
               status |-> 500]
         ELSE [steps |-> <<Step("calculate", TRUE), Step("optimize", TRUE)>>,
               status |-> 200] :
            optimizedData \in {optimizeNDCSelection(Num(quantityData.totalQuantity),
                                                    [isArray |-> TRUE, items |-> ndcs])}} :
        TRUE

\* steps 3 and 4 of the handler (lines 39-72): the steps made and the status
postCompute(sigText, days, ndcs) ==
    CHOOSE answered \in
        {IF ~quantityData.success
         THEN [steps |-> <<Step("calculate", FALSE)>>, status |-> 400]
         ELSE postOptimize(quantityData, ndcs) :
            quantityData \in {calculateDispenseQuantity(Str(trim(sigText)), days)}} :
        TRUE

\* a request arrives (lines 7-22): a body that cannot be read or lacks a field
\* is answered at once
PostReceive ==
    /\ post.pc = "idle"
    /\ page = InitialPage
    /\ runs[1].pc = "unused"
    /\ \/ post' = [post EXCEPT !.pc = "done", !.status = 500]
       \/ \E body \in PostBodies :
            IF body.drugInput = "" \/ body.sig = "" \/ body.daysSupply = 0
            THEN post' = [post EXCEPT !.pc = "done", !.status = 400]
            ELSE post' = [post EXCEPT !.pc = "normalize", !.sig = body.sig,
                                      !.daysSupply = body.daysSupply]
    /\ UNCHANGED <<serviceVars, toastStore, page, runs>>

\* normalizeDrugToRxCUI settles (lines 22-31)
PostNormalizeReturns ==
    /\ post.pc = "normalize"
    /\ \E outcome \in {"ok", "notFound", "throws"} :
        post' = [post EXCEPT
                    !.steps = Append(@, Step("normalize", outcome = "ok")),
                    !.pc = IF outcome = "ok" THEN "fetch" ELSE "done",
                    !.status = IF outcome = "ok" THEN 0
                               ELSE IF outcome = "notFound" THEN 404 ELSE 500]
    /\ UNCHANGED <<serviceVars, toastStore, page, runs>>

\* getNDCsByRxCUI settles and the handler answers (lines 31-83)
PostNDCReturns ==
    /\ post.pc = "fetch"
    /\ \E outcome \in NDCOutcomes :
        IF outcome.kind = "ok"
        THEN \E computed \in {postCompute(post.sig, post.daysSupply, outcome.ndcs)} :
                post' = [post EXCEPT !.pc = "done",
                                     !.steps = Append(@, Step("fetch", TRUE))
                                               \o computed.steps,
                                     !.status = computed.status]
        ELSE post' = [post EXCEPT !.pc = "done",
                                  !.steps = Append(@, Step("fetch", FALSE)),
                                  !.status = IF outcome.kind = "throws" THEN 500 ELSE 404]
    /\ UNCHANGED <<serviceVars, toastStore, page, runs>>

NextCallers ==
    \/ EditForm
    \/ SubmitForm
    \/ KeydownSubmit
    \/ ClickClear
    \/ KeydownEscape
    \/ \E r \in 1..MaxRuns : NormalizeReturns(r)
    \/ \E r \in 1..MaxRuns : NDCReturns(r)
    \/ PostReceive
    \/ PostNormalizeReturns
    \/ PostNDCReturns

SpecCallers == Init /\ [][NextCallers]_vars

----------------------------------------------------------------------------
(* The order of the steps in the callers *)

\* the steps of one invocation follow each other as the callers write them: a
\* step is made only after the step before it succeeded; the page searches the
\* catalog a second time, by drug name, after a first search that found nothing
InOrder(steps) ==
    \A k \in 1..Len(steps) :
        IF k = 1
        THEN steps[k].name = "normalize"
        ELSE \/ steps[k].name = "fetch" /\ steps[k - 1] = Step("normalize", TRUE)
             \/ steps[k].name = "fetch" /\ steps[k - 1] = Step("fetch", FALSE) /\ k = 3
             \/ steps[k].name = "calculate" /\ steps[k - 1] = Step("fetch", TRUE)
             \/ steps[k].name = "optimize" /\ steps[k - 1] = Step("calculate", TRUE)

EndsOptimized(steps) ==
    Len(steps) >= 4 /\ steps[Len(steps)] = Step("optimize", TRUE)

\* C28: in handleSubmit and in the POST handler the steps run in the order
\* normalize, fetch catalog, calculate quantity, optimize, each only after the
\* one before it succeeded (so optimizeNDCSelection is called only after a
\* successful normalization, a non-empty catalog and a successful quantity), and
\* a success response or success message is produced only by an invocation whose
\* optimization succeeded.
C28_StepsInOrder ==
    /\ \A r \in 1..MaxRuns : InOrder(runs[r].steps)
    /\ InOrder(post.steps)
    /\ post.status = 200 => post.pc = "done" /\ EndsOptimized(post.steps)
    /\ page.submitMessageType = "success" =>
          \E r \in 1..MaxRuns : runs[r].pc = "done" /\ EndsOptimized(runs[r].steps)
    /\ \A r \in 1..MaxRuns :
          page.optimizedNDCResult.by = r =>
              \E k \in 1..Len(runs[r].steps) : runs[r].steps[k].name = "optimize"

C28_Witness ==
    /\ page.submitMessageType = "success"
    /\ \E r \in 1..MaxRuns :
          /\ runs[r].pc = "done"
          /\ runs[r].steps = <<Step("normalize", TRUE), Step("fetch", FALSE),
                               Step("fetch", TRUE), Step("calculate", TRUE),
                               Step("optimize", TRUE)>>
          /\ page.optimizedNDCResult = [by |-> r, success |-> TRUE]

----------------------------------------------------------------------------
(* One submission at a time *)

Pending(r) == runs[r].pc \in {"normalize", "fetch", "fetchByName"}

\* the invocations that assigned the results now on the page
Displayed ==
    {page.normalizationResult.by, page.ndcResult.by, page.quantityResult.by,
     page.optimizedNDCResult.by} \ {0}

\* C30: at most one handleSubmit invocation is pending at any time, isSubmitting
\* is true exactly while one is pending, and the results on the page were all
\* assigned by the same invocation.
C30_OneSubmission ==
    /\ Cardinality({r \in 1..MaxRuns : Pending(r)}) <= 1
    /\ page.isSubmitting <=> \E r \in 1..MaxRuns : Pending(r)
    /\ Cardinality(Displayed) <= 1

====
